---- MODULE Spec2Model ----
(***************************************************************************)
(* A model of the Huff code generator (huff_codegen::Codegen): the macro   *)
(* expander recurse_bytecode with its argument resolver bubble_arg_call    *)
(* and its jump-patching second pass, the top-level generators roll and    *)
(* construct, and the artifact assembler churn.                            *)
(*                                                                         *)
(* Hex strings are sequences of one-character strings, so that slicing and *)
(* placeholder substitution are the substring operations of the code.      *)
(* Statement and fragment indices are zero-based as in the code; sequences *)
(* are one-based, so element i of the code is element i + 1 here.          *)
(***************************************************************************)
EXTENDS Naturals, Sequences, FiniteSets, TLC

VARIABLES
    ast,        \* Option<Contract> handed to roll / construct
    pc,         \* "idle" | "running" | "done": position of the top-level call
    target,     \* name of the root macro being generated
    frames,     \* call stack of recurse_bytecode, innermost frame last
    scope,      \* scope: &mut Vec<MacroDefinition>, shared by all frames
    mis,        \* mis: &mut Vec<(usize, MacroInvocation)>, shared by all frames
    result,     \* what the top-level call returned
    labelRefs,  \* history: label references emitted, with the offset of their PUSH2
    labelDecls, \* history: label declarations emitted, with the offset of their JUMPDEST
    lastArg,    \* history: the last argument reference resolved by bubble_arg_call
    artifact,   \* Codegen.artifact: Option<Artifact>
    lastChurn,  \* history: the arguments of the latest churn
    lastAbi,    \* history: the abi generated by the latest abi_gen
    earlier,    \* history: what the first call of roll and of construct returned
    lexer,      \* the Lexer and, as history, the items its next has returned
    entered     \* history: mis as it was before the push of each invocation still open

vars == <<ast, pc, target, frames, scope, mis, result, labelRefs, labelDecls,
          lastArg, artifact, lastChurn, lastAbi, earlier, lexer, entered>>

expanderVars == <<ast, pc, target, frames, scope, mis, result, labelRefs,
                  labelDecls, lastArg, earlier, entered>>

(***************************************************************************)
(* Bounds of the model.                                                    *)
(***************************************************************************)
\* longest MAIN body enumerated statement by statement
MaxBody == 2
\* deepest stack of recurse_bytecode frames followed (recursive macros never return)
MaxDepth == 5

(***************************************************************************)
(* Hex formatting.                                                         *)
(***************************************************************************)
HexDigits == <<"0", "1", "2", "3", "4", "5", "6", "7",
               "8", "9", "a", "b", "c", "d", "e", "f">>

\* format!("{:x}", n): lowercase hex of n without leading zeros
RECURSIVE FormatHex(_)
FormatHex(n) ==
    IF n < 16 THEN <<HexDigits[n + 1]>>
    ELSE FormatHex(n \div 16) \o <<HexDigits[(n % 16) + 1]>>

\* a minimum field width with zero fill: pads on the left, never truncates
PadLeft(h, w) ==
    IF Len(h) >= w THEN h ELSE [i \in 1..(w - Len(h)) |-> "0"] \o h

\* format!("{:02x}", n)
Format02x(n) == PadLeft(FormatHex(n), 2)

\* format!("{:04x}", n)
Format04x(n) == PadLeft(FormatHex(n), 4)

\* huff_utils pad_n_bytes(hex, num_bytes): left-pads with "0" up to 2 * num_bytes chars
pad_n_bytes(hex, num_bytes) == PadLeft(hex, 2 * num_bytes)

\* huff_utils bytes32_to_string(l, false): the bytes of l from its first non-zero
\* byte on, two hex chars per byte; the last byte alone when l is zero
bytes32_to_string(l) ==
    LET h == FormatHex(l) IN IF Len(h) % 2 = 1 THEN <<"0">> \o h ELSE h

\* concatenation of a list of fragments: final_bytes.iter().map(..).collect::<String>()
RECURSIVE Concat(_)
Concat(bs) == IF bs = <<>> THEN <<>> ELSE Head(bs) \o Concat(Tail(bs))

\* final_bytes.iter().map(|b| b.0.len()).sum::<usize>()
RECURSIVE SumLen(_)
SumLen(bs) == IF bs = <<>> THEN 0 ELSE Len(Head(bs)) + SumLen(Tail(bs))

(***************************************************************************)
(* Opcodes (huff_utils::evm::Opcode): the mnemonics the model uses.        *)
(***************************************************************************)
OpcodeTable == [stop |-> <<"0", "0">>, jumpi |-> <<"5", "7">>,
                jumpdest |-> <<"5", "b">>, dup1 |-> <<"8", "0">>,
                push2 |-> <<"6", "1">>]

\* Opcode::from_str(name).is_ok()
IsOpcode(name) == name \in DOMAIN OpcodeTable

\* Opcode::to_string()
OpcodeHex(name) == OpcodeTable[name]

Jumpdest == OpcodeHex("jumpdest")
Push2 == OpcodeHex("push2")
Placeholder == <<"x", "x", "x", "x">>

(***************************************************************************)
(* The contract tree (huff_utils::ast).                                    *)
(***************************************************************************)
NoAst == [none |-> TRUE]
NoMacro == [none |-> TRUE]

Literal(v) == [t |-> "Literal", name |-> "", val |-> v, args |-> <<>>]
OpcodeSt(m) == [t |-> "Opcode", name |-> m, val |-> 0, args |-> <<>>]
ConstantSt(n) == [t |-> "Constant", name |-> n, val |-> 0, args |-> <<>>]
ArgCallSt(n) == [t |-> "ArgCall", name |-> n, val |-> 0, args |-> <<>>]
LabelSt(n) == [t |-> "Label", name |-> n, val |-> 0, args |-> <<>>]
LabelCallSt(n) == [t |-> "LabelCall", name |-> n, val |-> 0, args |-> <<>>]
MacroInvocation(m, as) == [t |-> "MacroInvocation", name |-> m, val |-> 0, args |-> as]

\* MacroArg
LiteralArg(v) == [k |-> "Literal", name |-> "", val |-> v]
ArgCallArg(n) == [k |-> "ArgCall", name |-> n, val |-> 0]
IdentArg(n) == [k |-> "Ident", name |-> n, val |-> 0]

\* ConstVal
ConstLiteral(n, v) == [name |-> n, k |-> "Literal", val |-> v]
FreeStoragePointer(n) == [name |-> n, k |-> "FreeStoragePointer", val |-> 0]

MacroDefinition(n, ps, body) == [name |-> n, parameters |-> ps, statements |-> body]

\* the two-byte literal 0x1234
Lit2B == 18 * 256 + 52

(***************************************************************************)
(* The macros every enumerated contract defines besides its root macros.   *)
(***************************************************************************)
Library == <<
    MacroDefinition("INNER", <<"a">>, <<ArgCallSt("a")>>),
    MacroDefinition("FWD", <<"a">>, <<MacroInvocation("INNER", <<ArgCallArg("a")>>)>>),
    MacroDefinition("FWDX", <<"b">>, <<MacroInvocation("INNER", <<ArgCallArg("b")>>)>>),
    MacroDefinition("FWD2", <<"a">>, <<MacroInvocation("FWD", <<ArgCallArg("a")>>)>>),
    MacroDefinition("SIB", <<"a">>, <<MacroInvocation("TWO", <<>>),
                                      MacroInvocation("INNER", <<ArgCallArg("a")>>)>>),
    MacroDefinition("TWO", <<>>, <<Literal(1), Literal(Lit2B)>>),
    MacroDefinition("JMP", <<>>, <<OpcodeSt("stop"), LabelCallSt("end")>>),
    MacroDefinition("JMP0", <<>>, <<LabelCallSt("end"), OpcodeSt("stop")>>),
    MacroDefinition("DECL", <<>>, <<LabelSt("end"), OpcodeSt("stop")>>),
    MacroDefinition("PAIR", <<"a", "b">>, <<ArgCallSt("b"), ArgCallSt("a")>>),
    MacroDefinition("OPP", <<"dup1">>, <<ArgCallSt("dup1")>>),
    MacroDefinition("NOPAR", <<"b">>, <<ArgCallSt("a")>>),
    MacroDefinition("USEK", <<>>, <<ConstantSt("K")>>),
    MacroDefinition("REC", <<>>, <<OpcodeSt("stop"), MacroInvocation("REC", <<>>)>>),
    MacroDefinition("MUT1", <<>>, <<MacroInvocation("MUT2", <<>>)>>),
    MacroDefinition("MUT2", <<>>, <<MacroInvocation("MUT1", <<>>)>>)
>>

\* the statements a MAIN body is enumerated over
RootStatements == {
    Literal(1), OpcodeSt("stop"), LabelCallSt("end"), LabelSt("end"),
    ConstantSt("K"), ArgCallSt("a"), ArgCallSt("dup1"),
    MacroInvocation("INNER", <<LiteralArg(5)>>),
    MacroInvocation("INNER", <<IdentArg("end")>>),
    MacroInvocation("INNER", <<>>),
    MacroInvocation("FWD", <<LiteralArg(Lit2B)>>),
    MacroInvocation("FWD", <<ArgCallArg("q")>>),
    MacroInvocation("FWDX", <<LiteralArg(5)>>),
    MacroInvocation("FWD2", <<LiteralArg(5)>>),
    MacroInvocation("SIB", <<LiteralArg(5)>>),
    MacroInvocation("TWO", <<>>),
    MacroInvocation("JMP", <<>>),
    MacroInvocation("DECL", <<>>),
    MacroInvocation("PAIR", <<LiteralArg(5), LiteralArg(Lit2B)>>),
    MacroInvocation("OPP", <<LiteralArg(5)>>),
    MacroInvocation("NOPAR", <<LiteralArg(5)>>),
    MacroInvocation("USEK", <<>>),
    MacroInvocation("NOSUCH", <<>>),
    MacroInvocation("REC", <<>>),
    MacroInvocation("MUT1", <<>>)
}

\* the body `0x01 end jumpi end: stop`
PushAndJump == <<Literal(1), LabelCallSt("end"), OpcodeSt("jumpi"),
                 LabelSt("end"), OpcodeSt("stop")>>

\* longer bodies, beyond MaxBody statements
CuratedBodies == {
    PushAndJump,
    <<MacroInvocation("TWO", <<>>), LabelCallSt("end"), LabelSt("end")>>,
    <<MacroInvocation("INNER", <<>>), LabelCallSt("end"), LabelSt("end")>>,
    <<LabelSt("end"), MacroInvocation("JMP", <<>>), OpcodeSt("stop")>>,
    <<MacroInvocation("JMP0", <<>>), LabelSt("end")>>,
    <<LabelCallSt("end"), MacroInvocation("TWO", <<>>), LabelSt("end")>>
}

RECURSIVE SeqsUpTo(_, _)
SeqsUpTo(S, n) ==
    IF n = 0 THEN {<<>>}
    ELSE LET shorter == SeqsUpTo(S, n - 1)
         IN shorter \cup {Append(b, s) : b \in shorter, s \in S}

MainBodies == SeqsUpTo(RootStatements, MaxBody) \cup CuratedBodies

\* the constant lists of the enumerated contracts
ConstantLists == {
    <<>>,
    <<ConstLiteral("K", Lit2B), ConstLiteral("K", 5), ConstLiteral("a", 3),
      ConstLiteral("dup1", 0)>>,
    <<FreeStoragePointer("K"), FreeStoragePointer("a")>>
}

\* a contract: its root macros and its constants; every contract also defines
\* the macros of Library, after its root macros
Contract(roots, cs) == [roots |-> roots, constants |-> cs]

Macros(contract) == contract.roots \o Library

\* literals at the limits of one, two, three and four bytes
PushValues == {0, 1, 255, 256, 65535, 65536, 16777215, 16777216, 2147483647}

\* the bodies that inline the literal v: from the constant K, from a reference
\* to an argument named as the constant K, and from a literal macro argument
PushBodies(v) == {
    <<ConstantSt("K")>>,
    <<ArgCallSt("K")>>,
    <<MacroInvocation("INNER", <<LiteralArg(v)>>)>>,
    <<MacroInvocation("USEK", <<>>)>>
}

Contracts ==
    {Contract(<<MacroDefinition("MAIN", <<>>, b),
                MacroDefinition("CONSTRUCTOR", <<>>, PushAndJump)>>, c) :
        b \in MainBodies, c \in ConstantLists}
    \cup {Contract(<<MacroDefinition("CONSTRUCTOR", <<>>, PushAndJump)>>, <<>>),
          Contract(<<MacroDefinition("MAIN", <<"a">>, <<ArgCallSt("a")>>)>>, <<>>)}
    \cup UNION {{Contract(<<MacroDefinition("MAIN", <<>>, b)>>, <<ConstLiteral("K", v)>>) :
                    b \in PushBodies(v)} : v \in PushValues}

\* Contract::find_macro_by_name: the first macro of that name
find_macro_by_name(contract, name) ==
    LET found == SelectSeq(Macros(contract), LAMBDA m : m.name = name)
    IN IF found = <<>> THEN NoMacro ELSE found[1]

\* the definition a macro name stands for: every MacroDefinition the expander
\* holds is a clone of what find_macro_by_name returned for its name
Def(name) == find_macro_by_name(ast, name)

\* contract.constants.iter().filter(|c| c.name.eq(name)).collect().get(0)
FindConstant(contract, name) == SelectSeq(contract.constants, LAMBDA c : c.name = name)

\* a PUSH of a literal that always uses the opcode of PUSH1
PushLiteral_AlwaysPush1(l) == <<"6", "0">> \o bytes32_to_string(l)

\* a PUSH of a literal whose opcode counts the hex characters of the operand
PushLiteral_NoHalving(l) ==
    LET hex_literal == bytes32_to_string(l)
    IN Format02x(95 + Len(hex_literal)) \o hex_literal

\* the PUSH of a literal: format!("{:02x}{}", 95 + hex_literal.len() / 2, hex_literal)
PushLiteral(l) ==
    LET hex_literal == bytes32_to_string(l)
    IN Format02x(95 + Len(hex_literal) \div 2) \o hex_literal

\* MacroDefinition::to_irbytecode lowers each statement to one IR byte
IRByteOf(s) ==
    CASE s.t = "Literal" -> [t |-> "Bytes", hex |-> PushLiteral(s.val), st |-> s]
      [] s.t = "Opcode" -> [t |-> "Bytes", hex |-> OpcodeHex(s.name), st |-> s]
      [] s.t = "Constant" -> [t |-> "Constant", hex |-> <<>>, st |-> s]
      [] s.t = "ArgCall" -> [t |-> "ArgCall", hex |-> <<>>, st |-> s]
      [] OTHER -> [t |-> "Statement", hex |-> <<>>, st |-> s]

(***************************************************************************)
(* Maps (JumpTable = BTreeMap<usize, Vec<Jump>>, JumpIndices =             *)
(* BTreeMap<String, usize>) are functions with a finite domain.            *)
(***************************************************************************)
EmptyMap == [k \in {} |-> 0]

\* BTreeMap::insert: replaces the value of an existing key
MapInsert(m, key, v) ==
    [k \in (DOMAIN m) \cup {key} |-> IF k = key THEN v ELSE m[k]]

\* a.into_iter().chain(b).collect(): on a key of both, the later entry (b's) wins
MapChain(a, b) ==
    [k \in (DOMAIN a) \cup (DOMAIN b) |-> IF k \in DOMAIN b THEN b[k] ELSE a[k]]

Jump(l, i) == [label |-> l, bytecode_index |-> i]

(***************************************************************************)
(* bubble_arg_call.  The result names what the call did to its in-out      *)
(* parameters: the fragments pushed on bytegen (offset advances by their   *)
(* byte length), the entry inserted into jump_table, and the branch that   *)
(* decided (via).  jump_tables is empty in every call (roll and construct  *)
(* pass Vec::default() and nothing adds to it) and is left out.            *)
(***************************************************************************)
ArgOk(via, pushed, inserted) ==
    [res |-> "ok", err |-> <<>>, via |-> via, pushed |-> pushed, inserted |-> inserted]
ArgErr(kind) ==
    [res |-> "err", err |-> <<kind>>, via |-> "constant", pushed |-> <<>>, inserted |-> <<>>]
\* new_scope.last().unwrap() on an empty new_scope
ArgPanic ==
    [res |-> "panic", err |-> <<>>, via |-> "argcall", pushed |-> <<>>, inserted |-> <<>>]

\* macro_def.parameters.iter().position(|r| r.name == arg_name): zero-based, or -1
\* shifted by one: 0 when there is none, else the one-based position of the first
Position(parameters, arg_name) ==
    LET hits == {i \in 1..Len(parameters) : parameters[i] = arg_name}
    IN IF hits = {} THEN 0 ELSE CHOOSE i \in hits : \A j \in hits : i <= j

\* the name the recursive call resolves when the actual argument is ArgCall(ac):
\* the code passes arg_name again, not ac
BubbledName(arg_name, ac) == arg_name

\* scope[..scope.len().saturating_sub(1)]
DropLast(s) == IF s = <<>> THEN <<>> ELSE SubSeq(s, 1, Len(s) - 1)

\* the label-call fallback of bubble_arg_call
LabelFallback(arg_name, ms) ==
    ArgOk("label", <<Push2 \o Placeholder>>,
          <<[key |-> IF ms # <<>> THEN ms[Len(ms)].index ELSE 0,
             jumps |-> <<Jump(arg_name, 0)>>]>>)

\* what an Ident actual argument resolves to: nothing is emitted (a TODO in the code)
IdentArgResult(iden) == ArgOk("ident", <<>>, <<>>)

\* what a name without a binding resolves to while an invocation is on the stack:
\* a warning only
UnboundResult(via) == ArgOk(via, <<>>, <<>>)

\* the arguments of the recursive call of the MacroArg::ArgCall(ac) arm
Reentry(arg_name, ac, macro_def, sc, ms) ==
    LET new_scope == DropLast(sc) IN
    [arg_name |-> BubbledName(arg_name, ac),
     macro_def |-> new_scope[Len(new_scope)],
     scope |-> new_scope,
     mis |-> IF ms[Len(ms)].mi.name = macro_def THEN DropLast(ms) ELSE ms]

RECURSIVE bubble_arg_call(_, _, _, _)
bubble_arg_call(arg_name, macro_def, sc, ms) ==
    LET constant == FindConstant(ast, arg_name) IN
    IF constant # <<>> THEN
        IF constant[1].k = "Literal"
        THEN ArgOk("constant", <<PushLiteral(constant[1].val)>>, <<>>)
        ELSE ArgErr("StoragePointersNotDerived")
    ELSE IF IsOpcode(arg_name) THEN
        ArgOk("opcode", <<OpcodeHex(arg_name)>>, <<>>)
    ELSE IF ms # <<>> THEN
        LET macro_invoc == ms[Len(ms)]
            pos == Position(Def(macro_def).parameters, arg_name)
        IN  IF pos = 0 THEN UnboundResult("notparam")
            ELSE IF pos > Len(macro_invoc.mi.args) THEN UnboundResult("noarg")
            ELSE LET arg == macro_invoc.mi.args[pos] IN
                CASE arg.k = "Literal" ->
                        ArgOk("literal", <<PushLiteral(arg.val)>>, <<>>)
                  [] arg.k = "ArgCall" ->
                        \* new_scope.last().unwrap() panics on an empty new_scope
                        IF DropLast(sc) = <<>> THEN ArgPanic
                        ELSE LET r == Reentry(arg_name, arg.name, macro_def, sc, ms)
                             IN bubble_arg_call(r.arg_name, r.macro_def, r.scope, r.mis)
                  [] OTHER -> IdentArgResult(arg.name)
    ELSE LabelFallback(arg_name, ms)

(***************************************************************************)
(* The second pass of recurse_bytecode: patching the jumps of a frame.     *)
(***************************************************************************)
\* the operand written for a label at byte offset jump_index
JumpValue(jump_index) == pad_n_bytes(FormatHex(jump_index), 2)

\* one iteration of `for jump in jt` on the fragment being formatted; rel is
\* (indices[index] - offset) * 2.  Slicing past the end of the fragment panics.
ApplyJump(acc, jump, jump_indices, rel) ==
    IF acc.panic THEN acc
    ELSE IF jump.label \in DOMAIN jump_indices THEN
        IF jump.bytecode_index + 6 > Len(acc.bytes)
        THEN [acc EXCEPT !.panic = TRUE]
        ELSE [acc EXCEPT !.bytes =
                 SubSeq(acc.bytes, 1, jump.bytecode_index + 2)
                 \o JumpValue(jump_indices[jump.label])
                 \o SubSeq(acc.bytes, jump.bytecode_index + 7, Len(acc.bytes))]
    ELSE [acc EXCEPT !.unmatched =
             Append(acc.unmatched, Jump(jump.label, rel + jump.bytecode_index))]

RECURSIVE ApplyJumps(_, _, _, _)
ApplyJumps(acc, jt, jump_indices, rel) ==
    IF jt = <<>> THEN acc
    ELSE ApplyJumps(ApplyJump(acc, Head(jt), jump_indices, rel), Tail(jt),
                    jump_indices, rel)

\* indices: the frame's final offset, then that offset plus the running byte
\* length of the fragments (cur_index starts at offset after the loop)
RECURSIVE IndicesFrom(_, _)
IndicesFrom(cur_index, bs) ==
    IF bs = <<>> THEN <<>>
    ELSE LET next == cur_index + Len(Head(bs)) \div 2
         IN <<next>> \o IndicesFrom(next, Tail(bs))

Indices(f) == <<f.offset>> \o IndicesFrom(f.offset, f.final_bytes)

\* the key under which the second pass looks up the jumps of fragment number
\* index of final_bytes (zero-based): jump_table.get(&index)
FragmentKey(index) == index

\* the fold over final_bytes.iter().enumerate(), from fragment i (one-based) on;
\* acc = [panic, bytes: fragments done, unmatched]
RECURSIVE PatchFrom(_, _, _)
PatchFrom(f, i, acc) ==
    IF i > Len(f.final_bytes) \/ acc.panic THEN acc
    ELSE LET b == f.final_bytes[i]
             key == FragmentKey(i - 1)
             rel == (Indices(f)[i] - f.offset) * 2
             one == IF key \in DOMAIN f.jump_table
                    THEN ApplyJumps([panic |-> FALSE, bytes |-> b,
                                     unmatched |-> acc.unmatched],
                                    f.jump_table[key], f.jump_indices, rel)
                    ELSE [panic |-> FALSE, bytes |-> b, unmatched |-> acc.unmatched]
         IN PatchFrom(f, i + 1, [panic |-> one.panic,
                                 bytes |-> Append(acc.bytes, one.bytes),
                                 unmatched |-> one.unmatched])

SecondPass(f) == PatchFrom(f, 1, [panic |-> FALSE, bytes |-> <<>>, unmatched |-> <<>>])

(***************************************************************************)
(* The frames of recurse_bytecode.                                         *)
(***************************************************************************)
NewFrame(macro_def, offset) ==
    [macro_def |-> macro_def, index |-> 0, offset |-> offset, final_bytes |-> <<>>,
     jump_table |-> EmptyMap, jump_indices |-> EmptyMap]

Top == frames[Len(frames)]
\* irbz has one IR byte per statement of the macro; Cur is the one the loop is at
InLoop == pc = "running" /\ frames # <<>> /\ Top.index < Len(Def(Top.macro_def).statements)
LoopDone == pc = "running" /\ frames # <<>> /\ Top.index = Len(Def(Top.macro_def).statements)
Cur == IRByteOf(Def(Top.macro_def).statements[Top.index + 1])

\* CodegenErrorKind: the name of the kind, then its payload if it has one
NoResult == [kind |-> "none", err |-> <<>>, hex |-> <<>>]
Ok(hex) == [kind |-> "ok", err |-> <<>>, hex |-> hex]
Err(kind) == [kind |-> "err", err |-> kind, hex |-> <<>>]
Panicked == [kind |-> "panic", err |-> <<>>, hex |-> <<>>]
NoArgCall == [none |-> TRUE]

\* the error the top-level generator returns when a frame at this depth fails:
\* every caller of a failed recursion replaces the error
ErrorAtDepth(kind, depth) == IF depth > 1 THEN <<"FailedMacroRecursion">> ELSE kind

\* the top-level call ends with r; its locals are gone
Finish(r) ==
    /\ result' = r
    /\ pc' = "done"
    /\ frames' = <<>>
    /\ scope' = <<>>
    /\ mis' = <<>>

Fail(kind) == Finish(Err(ErrorAtDepth(kind, Len(frames))))

SetTop(f) == frames' = [frames EXCEPT ![Len(frames)] = f]

\* a frame after pushing fragment b: offset += b.len() / 2; final_bytes.push(b)
Emit(f, b) ==
    [f EXCEPT !.offset = @ + Len(b) \div 2, !.final_bytes = Append(@, b)]

\* what roll does once recurse_bytecode returned res: the bytes are joined and
\* returned; res.unmatched_jumps is not looked at
RollResult(res) == Ok(Concat(res.bytes))

(***************************************************************************)
(* roll and construct.                                                     *)
(***************************************************************************)
\* an offset of the root frame that goes on from the bytes of the previous call
RootOffset_Continued == IF result.kind = "ok" THEN Len(result.hex) \div 2 ELSE 0

\* the offset roll and construct hand to recurse_bytecode for the root frame
RootOffset == 0

Generate(name, missing) ==
    /\ pc = "idle"
    /\ target' = name
    /\ labelRefs' = {}
    /\ labelDecls' = {}
    /\ lastArg' = NoArgCall
    /\ entered' = <<>>
    /\ UNCHANGED <<ast, artifact, lastChurn, lastAbi, earlier, lexer>>
    /\ IF ast = NoAst THEN Finish(Err(<<"MissingAst">>))
       ELSE IF find_macro_by_name(ast, name) = NoMacro THEN Finish(Err(missing))
       ELSE /\ frames' = <<NewFrame(name, RootOffset)>>
            /\ scope' = <<name>>
            /\ mis' = <<>>
            /\ pc' = "running"
            /\ result' = NoResult

Roll == Generate("MAIN", <<"MissingMacroDefinition", "MAIN">>)

\* a construct that reports a missing CONSTRUCTOR with the error kind of roll
Construct_AsRoll == Generate("CONSTRUCTOR", <<"MissingMacroDefinition", "CONSTRUCTOR">>)

Construct == Generate("CONSTRUCTOR", <<"MissingConstructor">>)

(***************************************************************************)
(* One iteration of the loop over the IR bytes of the innermost frame.     *)
(***************************************************************************)
StepBytes ==
    /\ InLoop /\ Cur.t = "Bytes"
    /\ SetTop([Emit(Top, Cur.hex) EXCEPT !.index = @ + 1])
    /\ UNCHANGED <<ast, pc, target, scope, mis, result, labelRefs, labelDecls,
                   lastArg, artifact, lastChurn, lastAbi, earlier, lexer, entered>>

StepConstant ==
    /\ InLoop /\ Cur.t = "Constant"
    /\ LET constant == FindConstant(ast, Cur.st.name) IN
       IF constant = <<>> THEN
            Fail(<<"MissingConstantDefinition">>) /\ UNCHANGED <<ast, target>>
       ELSE IF constant[1].k # "Literal" THEN
            Fail(<<"StoragePointersNotDerived">>) /\ UNCHANGED <<ast, target>>
       ELSE /\ SetTop([Emit(Top, PushLiteral(constant[1].val)) EXCEPT !.index = @ + 1])
            /\ UNCHANGED <<ast, pc, target, scope, mis, result>>
    /\ UNCHANGED <<labelRefs, labelDecls, lastArg, artifact, lastChurn, lastAbi, earlier, lexer, entered>>

\* an expander that leaves out, without a word, the invocation of a macro that
\* is already being expanded
StepMacroInvocation_Truncating ==
    /\ InLoop /\ Cur.t = "Statement" /\ Cur.st.t = "MacroInvocation"
    /\ Len(frames) < MaxDepth
    /\ LET mi == Cur.st
           ir_macro == find_macro_by_name(ast, mi.name)
       IN IF ir_macro = NoMacro THEN
               Fail(<<"MissingMacroDefinition", mi.name>>) /\ UNCHANGED <<ast, target, entered>>
          ELSE IF \E k \in 1..Len(frames) : frames[k].macro_def = ir_macro.name THEN
               /\ SetTop([Top EXCEPT !.index = @ + 1])
               /\ UNCHANGED <<ast, pc, target, scope, mis, result, entered>>
          ELSE /\ scope' = Append(scope, ir_macro.name)
               /\ entered' = Append(entered, mis)
               /\ mis' = Append(mis, [index |-> Top.index, mi |-> mi])
               /\ frames' = Append(frames, NewFrame(ir_macro.name, Top.offset))
               /\ UNCHANGED <<ast, pc, target, result>>
    /\ UNCHANGED <<labelRefs, labelDecls, lastArg, artifact, lastChurn, lastAbi, earlier, lexer>>

StepMacroInvocation ==
    /\ InLoop /\ Cur.t = "Statement" /\ Cur.st.t = "MacroInvocation"
    /\ Len(frames) < MaxDepth
    /\ LET mi == Cur.st
           ir_macro == find_macro_by_name(ast, mi.name)
       IN IF ir_macro = NoMacro THEN
               Fail(<<"MissingMacroDefinition", mi.name>>) /\ UNCHANGED <<ast, target, entered>>
          ELSE /\ scope' = Append(scope, ir_macro.name)
               /\ entered' = Append(entered, mis)
               /\ mis' = Append(mis, [index |-> Top.index, mi |-> mi])
               /\ frames' = Append(frames, NewFrame(ir_macro.name, Top.offset))
               /\ UNCHANGED <<ast, pc, target, result>>
    /\ UNCHANGED <<labelRefs, labelDecls, lastArg, artifact, lastChurn, lastAbi, earlier, lexer>>

\* a label recorded at the offset after its JUMPDEST
LabelEffect_AfterJumpdest(f, name) ==
    LET g == Emit(f, Jumpdest)
    IN [g EXCEPT !.jump_indices = MapInsert(@, name, g.offset), !.index = @ + 1]

\* Statement::Label
LabelEffect(f, name) ==
    [Emit([f EXCEPT !.jump_indices = MapInsert(@, name, f.offset)], Jumpdest)
        EXCEPT !.index = @ + 1]

StepLabel ==
    /\ InLoop /\ Cur.t = "Statement" /\ Cur.st.t = "Label"
    /\ SetTop(LabelEffect(Top, Cur.st.name))
    /\ labelDecls' = labelDecls \cup {[label |-> Cur.st.name, at |-> Top.offset]}
    /\ UNCHANGED <<ast, pc, target, scope, mis, result, labelRefs, lastArg, artifact, lastChurn, lastAbi, earlier, lexer, entered>>

\* Statement::LabelCall
LabelCallEffect(f, label) ==
    [Emit([f EXCEPT !.jump_table = MapInsert(@, f.index, <<Jump(label, 0)>>)],
          Push2 \o Placeholder)
        EXCEPT !.index = @ + 1]

StepLabelCall ==
    /\ InLoop /\ Cur.t = "Statement" /\ Cur.st.t = "LabelCall"
    /\ SetTop(LabelCallEffect(Top, Cur.st.name))
    /\ labelRefs' = labelRefs \cup {[label |-> Cur.st.name, at |-> Top.offset]}
    /\ UNCHANGED <<ast, pc, target, scope, mis, result, labelDecls, lastArg, artifact, lastChurn, lastAbi, earlier, lexer, entered>>

\* the frame after bubble_arg_call returned Ok: bytegen, offset and jump_table
\* are the frame's own final_bytes, offset and jump_table
RECURSIVE EmitAll(_, _)
EmitAll(f, bs) == IF bs = <<>> THEN f ELSE EmitAll(Emit(f, Head(bs)), Tail(bs))

RECURSIVE InsertAll(_, _)
InsertAll(jt, ins) ==
    IF ins = <<>> THEN jt
    ELSE InsertAll(MapInsert(jt, Head(ins).key, Head(ins).jumps), Tail(ins))

ArgCallEffect(f, out) ==
    [EmitAll([f EXCEPT !.jump_table = InsertAll(@, out.inserted)], out.pushed)
        EXCEPT !.index = @ + 1]

StepArgCall ==
    /\ InLoop /\ Cur.t = "ArgCall"
    /\ LET out == bubble_arg_call(Cur.st.name, Top.macro_def, scope, mis) IN
       /\ lastArg' = [name |-> Cur.st.name, macro_def |-> Top.macro_def,
                      scope |-> scope, mis |-> mis, depth |-> Len(frames),
                      before |-> Top,
                      after |-> IF out.res = "ok" THEN ArgCallEffect(Top, out) ELSE Top,
                      out |-> out]
       /\ labelRefs' = IF out.via = "label" /\ out.res = "ok"
                       THEN labelRefs \cup {[label |-> Cur.st.name, at |-> Top.offset]}
                       ELSE labelRefs
       /\ CASE out.res = "err" -> Fail(out.err) /\ UNCHANGED <<ast, target>>
            [] out.res = "panic" -> Finish(Panicked) /\ UNCHANGED <<ast, target>>
            [] OTHER -> /\ SetTop(ArgCallEffect(Top, out))
                        /\ UNCHANGED <<ast, pc, target, scope, mis, result>>
    /\ UNCHANGED <<labelDecls, artifact, lastChurn, lastAbi, earlier, lexer, entered>>

(***************************************************************************)
(* The end of a frame: the pop of mis, the second pass, and the return.    *)
(***************************************************************************)
\* an integration that adds the child's hex length, not its byte length, to offset
Integrate_HexLength(f, res) ==
    [f EXCEPT !.jump_table = MapInsert(@, f.index, res.unmatched),
              !.jump_indices = MapChain(@, res.jump_indices),
              !.offset = @ + SumLen(res.bytes),
              !.final_bytes = @ \o res.bytes,
              !.index = @ + 1]

\* the caller's frame after a child returned res
Integrate(f, res) ==
    [f EXCEPT !.jump_table = MapInsert(@, f.index, res.unmatched),
              !.jump_indices = MapChain(@, res.jump_indices),
              !.offset = @ + SumLen(res.bytes) \div 2,
              !.final_bytes = @ \o res.bytes,
              !.index = @ + 1]

\* a frame that ends without popping the invocation stack
pop_Kept(ms) == ms

\* mis.pop(): the stack without its last entry; an empty stack stays empty
pop(ms) == DropLast(ms)

\* a nested frame returns to the frame that invoked it
Return ==
    /\ LoopDone /\ Len(frames) > 1
    /\ LET res == SecondPass(Top) IN
       IF res.panic THEN Finish(Panicked) /\ UNCHANGED entered
       ELSE /\ mis' = pop(mis)
            /\ entered' = DropLast(entered)
            /\ frames' = [i \in 1..(Len(frames) - 1) |->
                            IF i = Len(frames) - 1
                            THEN Integrate(frames[i],
                                           [bytes |-> res.bytes,
                                            unmatched |-> res.unmatched,
                                            jump_indices |-> Top.jump_indices])
                            ELSE frames[i]]
            /\ UNCHANGED <<pc, scope, result>>
    /\ UNCHANGED <<ast, target, labelRefs, labelDecls, lastArg, artifact, lastChurn, lastAbi, earlier, lexer>>

\* the root frame returns to roll / construct
RootReturn ==
    /\ LoopDone /\ Len(frames) = 1
    /\ LET res == SecondPass(Top) IN
       IF res.panic THEN Finish(Panicked) ELSE Finish(RollResult(res))
    /\ UNCHANGED <<ast, target, labelRefs, labelDecls, lastArg, artifact, lastChurn, lastAbi, earlier, lexer, entered>>

(***************************************************************************)
(* The specification of the expander.                                      *)
(***************************************************************************)
NoArtifact == [none |-> TRUE]
NoCall == [none |-> TRUE]
\* no Lexer has been made
NoLexer == [none |-> TRUE]
\* no top-level call has returned yet
NoEarlier == [t \in {"MAIN", "CONSTRUCTOR"} |-> NoResult]

Init ==
    /\ ast \in Contracts \cup {NoAst}
    /\ pc = "idle"
    /\ target = ""
    /\ frames = <<>>
    /\ scope = <<>>
    /\ mis = <<>>
    /\ result = NoResult
    /\ labelRefs = {}
    /\ labelDecls = {}
    /\ lastArg = NoArgCall
    /\ artifact = NoArtifact
    /\ lastChurn = NoCall
    /\ lastAbi = NoCall
    /\ earlier = NoEarlier
    /\ entered = <<>>
    /\ lexer = NoLexer

Next ==
    \/ Roll
    \/ Construct
    \/ StepBytes
    \/ StepConstant
    \/ StepMacroInvocation
    \/ StepLabel
    \/ StepLabelCall
    \/ StepArgCall
    \/ Return
    \/ RootReturn

Spec == Init /\ [][Next]_vars

(***************************************************************************)
(* churn and abi_gen: the cached artifact of a Codegen instance.           *)
(*                                                                         *)
(* The strings churn takes and builds are held as sequences of runs        *)
(* (character, count) in canonical form (no empty run, neighbouring runs   *)
(* of different characters), so that equal strings are equal values and a  *)
(* bytecode of 65536 bytes is a small value.                               *)
(***************************************************************************)
Run(c, n) == [c |-> c, n |-> n]

\* a ++ b
StrCat(a, b) ==
    IF a = <<>> THEN b
    ELSE IF b = <<>> THEN a
    ELSE IF a[Len(a)].c = b[1].c
         THEN SubSeq(a, 1, Len(a) - 1) \o <<Run(b[1].c, a[Len(a)].n + b[1].n)>> \o Tail(b)
         ELSE a \o b

\* the string of a sequence of characters
RECURSIVE StrOf(_)
StrOf(chars) ==
    IF chars = <<>> THEN <<>> ELSE StrCat(<<Run(Head(chars), 1)>>, StrOf(Tail(chars)))

\* str.len()
RECURSIVE StrLen(_)
StrLen(str) == IF str = <<>> THEN 0 ELSE Head(str).n + StrLen(Tail(str))

\* str::to_lowercase on the characters of a hex string
LowerChar(c) ==
    CASE c = "A" -> "a" [] c = "B" -> "b" [] c = "C" -> "c"
      [] c = "D" -> "d" [] c = "E" -> "e" [] c = "F" -> "f" [] OTHER -> c

RECURSIVE to_lowercase(_)
to_lowercase(str) ==
    IF str = <<>> THEN <<>>
    ELSE StrCat(<<Run(LowerChar(Head(str).c), Head(str).n)>>, to_lowercase(Tail(str)))

\* hex::encode(ethers::abi::encode(&[tok])) of a uint token: one 32-byte word
EncodeToken(tok) ==
    LET h == FormatHex(tok)
    IN StrCat(IF Len(h) < 64 THEN <<Run("0", 64 - Len(h))>> ELSE <<>>, StrOf(h))

\* hex_args.join("")
RECURSIVE JoinArgs(_)
JoinArgs(args) ==
    IF args = <<>> THEN <<>> ELSE StrCat(EncodeToken(Head(args)), JoinArgs(Tail(args)))

\* Artifact::default()
DefaultArtifact == [file |-> "", bytecode |-> <<>>, runtime |-> <<>>, abi |-> NoCall]

\* let contract_size = format!("{:04x}", contract_length)
ContractSize(contract_length) == StrOf(Format04x(contract_length))

\* a code offset that leaves out the 13 bytes of the bootstrap
ContractCodeOffset_NoBootstrap(constructor_length) == StrOf(Format04x(constructor_length))

\* let contract_code_offset = format!("{:04x}", 13 + constructor_length)
ContractCodeOffset(constructor_length) == StrOf(Format04x(13 + constructor_length))

\* format!("61{}8061{}6000396000f3", contract_size, contract_code_offset)
BootstrapCode(contract_size, contract_code_offset) ==
    StrCat(StrCat(StrCat(StrOf(<<"6", "1">>), contract_size),
                  StrCat(StrOf(<<"8", "0", "6", "1">>), contract_code_offset)),
           StrOf(<<"6", "0", "0", "0", "3", "9", "6", "0", "0", "0", "f", "3">>))

\* artifact.bytecode
ChurnBytecode(args, main_bytecode, constructor_bytecode) ==
    LET contract_length == StrLen(main_bytecode) \div 2
        constructor_length == StrLen(constructor_bytecode) \div 2
        bootstrap_code == BootstrapCode(ContractSize(contract_length),
                                        ContractCodeOffset(constructor_length))
        constructor_code == StrCat(constructor_bytecode, bootstrap_code)
    IN to_lowercase(StrCat(StrCat(constructor_code, main_bytecode), JoinArgs(args)))

\* the artifact churn leaves in self.artifact (and returns a clone of)
ChurnArtifact(art, file, args, main_bytecode, constructor_bytecode) ==
    [art EXCEPT !.bytecode = ChurnBytecode(args, main_bytecode, constructor_bytecode),
                !.runtime = to_lowercase(main_bytecode),
                !.file = file]

\* an abi_gen that stores a new artifact holding the abi alone
AbiGenArtifact_Fresh(art, abi) == [DefaultArtifact EXCEPT !.abi = abi]

\* the artifact abi_gen leaves in self.artifact
AbiGenArtifact(art, abi) == [art EXCEPT !.abi = abi]

\* Abi::from(Contract): the ABI lists the contract's function declarations
AbiOf(functions) == [functions |-> functions]

\* the first length that does not fit four hex digits
Hex4Limit == 16 * 16 * 16 * 16

\* the calls of churn the model makes: small inputs in every combination, and
\* inputs whose lengths reach the limits of a four-digit field
Mains == {<<>>,
               StrOf(<<"0", "0">>),
               StrOf(<<"6", "0", "A", "B", "5", "b">>),
               StrOf(<<"6", "0", "0", "1", "6", "1", "0", "0", "0", "6", "5", "7",
                       "5", "b", "0", "0">>),
               <<Run("0", 2 * (Hex4Limit - 1))>>,
               <<Run("0", 2 * Hex4Limit)>>}
Constructors == {<<>>,
                      StrOf(<<"6", "0", "0", "0", "F", "3">>),
                      <<Run("0", 2 * (Hex4Limit - 14))>>,
                      <<Run("0", 2 * (Hex4Limit - 13))>>}
ChurnCalls ==
    [file : {"a.huff", "b.huff"}, args : {<<>>, <<1, 255>>},
     main : Mains, constructor : Constructors]

AbiFunctions == {<<>>, <<"test1">>}

Churn ==
    /\ \E c \in ChurnCalls :
        /\ artifact' = ChurnArtifact(IF artifact = NoArtifact THEN DefaultArtifact
                                     ELSE artifact,
                                     c.file, c.args, c.main, c.constructor)
        /\ lastChurn' = c
    /\ UNCHANGED <<expanderVars, lastAbi, lexer>>

\* the state abi_gen leaves is the same whether or not the export it ends with
\* succeeds
AbiGen ==
    /\ \E fs \in AbiFunctions :
        /\ artifact' = AbiGenArtifact(IF artifact = NoArtifact THEN DefaultArtifact
                                      ELSE artifact, AbiOf(fs))
        /\ lastAbi' = AbiOf(fs)
    /\ UNCHANGED <<expanderVars, lastChurn, lexer>>

\* Codegen::new(), with no contract under generation
InitChurn ==
    /\ ast = NoAst
    /\ pc = "idle"
    /\ target = ""
    /\ frames = <<>>
    /\ scope = <<>>
    /\ mis = <<>>
    /\ result = NoResult
    /\ labelRefs = {}
    /\ labelDecls = {}
    /\ lastArg = NoArgCall
    /\ artifact = NoArtifact
    /\ lastChurn = NoCall
    /\ lastAbi = NoCall
    /\ earlier = NoEarlier
    /\ entered = <<>>
    /\ lexer = NoLexer

NextChurn ==
    \/ Churn
    \/ AbiGen

SpecChurn == InitChurn /\ [][NextChurn]_vars

(***************************************************************************)
(* Definitions the properties are stated with.                             *)
(***************************************************************************)
\* the value of a hex digit, and of a sequence of hex digits
DigitValue(c) == CHOOSE d \in 0..15 : HexDigits[d + 1] = c

RECURSIVE HexValue(_)
HexValue(h) ==
    IF h = <<>> THEN 0
    ELSE 16 * HexValue(SubSeq(h, 1, Len(h) - 1)) + DigitValue(h[Len(h)])

\* the w hex digits of the low 4 * w bits of n, most significant first
FixedHex(n, w) == [i \in 1..w |-> HexDigits[((n \div (16 ^ (w - i))) % 16) + 1]]

\* the least number of bytes, at least one, that holds the value v
RECURSIVE BytesNeeded(_)
BytesNeeded(v) == IF v < 256 THEN 1 ELSE 1 + BytesNeeded(v \div 256)

\* PUSH<N> v with N = BytesNeeded(v): the opcode byte 0x5f + N, then N operand bytes
MinimalPush(v) ==
    FixedHex(95 + BytesNeeded(v), 2) \o FixedHex(v, 2 * BytesNeeded(v))

\* the bytes, as a byte count, emitted so far by frames 1..k
RECURSIVE EmittedUpTo(_)
EmittedUpTo(k) ==
    IF k = 0 THEN 0 ELSE EmittedUpTo(k - 1) + SumLen(frames[k].final_bytes) \div 2

IsConstantName(name) == ast # NoAst /\ FindConstant(ast, name) # <<>>

Resolved == lastArg # NoArgCall

\* the argument reference last resolved stands in a macro entered by an
\* invocation, and is neither a constant name nor an opcode mnemonic
ParamCase ==
    /\ Resolved
    /\ lastArg.mis # <<>>
    /\ ~IsConstantName(lastArg.name)
    /\ ~IsOpcode(lastArg.name)

LastInvocation == lastArg.mis[Len(lastArg.mis)].mi
LastPos == Position(Def(lastArg.macro_def).parameters, lastArg.name)

\* the name last resolved is a formal parameter with an actual argument
Bound == ParamCase /\ LastPos > 0 /\ LastPos <= Len(LastInvocation.args)
BoundTo(k) == Bound /\ LastInvocation.args[LastPos].k = k

\* the frame emitted exactly the fragment b and nothing else changed but the
\* position in the body
EmittedOnly(b) ==
    /\ lastArg.out.res = "ok"
    /\ lastArg.after.final_bytes = Append(lastArg.before.final_bytes, b)
    /\ lastArg.after.offset = lastArg.before.offset + Len(b) \div 2
    /\ lastArg.after.jump_table = lastArg.before.jump_table

\* the frame treated name as a label reference
TreatedAsLabel(name) ==
    /\ lastArg.out.res = "ok"
    /\ lastArg.after.final_bytes =
          Append(lastArg.before.final_bytes, <<"6", "1", "x", "x", "x", "x">>)
    /\ lastArg.after.offset = lastArg.before.offset + 3
    /\ \E k \in DOMAIN lastArg.after.jump_table :
          \E i \in 1..Len(lastArg.after.jump_table[k]) :
              lastArg.after.jump_table[k][i].label = name

(***************************************************************************)
(* Properties of the expander.                                             *)
(***************************************************************************)
\* the labels referenced in the expansion that no frame of it declares
UnresolvedLabels == {r.label : r \in labelRefs} \ {d.label : d \in labelDecls}

\* C1: when the expansion of the root macro contains a reference to a label
\* that no frame of the expansion declares, the top-level generator returns
\* an error and no hex string.
C1_UnresolvedLabelIsError ==
    (pc = "done" /\ UnresolvedLabels # {}) => result.kind = "err"

\* C2: a hex string returned by the top-level generator contains no "xxxx"
\* placeholder, and the PUSH2 of every label reference carries the offset of
\* a declaration of its label, where the output holds that label's JUMPDEST.
C2_JumpsResolved ==
    (pc = "done" /\ result.kind = "ok") =>
        /\ \A i \in 1..Len(result.hex) : result.hex[i] # "x"
        /\ \A r \in labelRefs : \E d \in labelDecls :
              /\ d.label = r.label
              /\ SubSeq(result.hex, 2 * r.at + 1, 2 * r.at + 6)
                    = <<"6", "1">> \o FixedHex(d.at, 4)
              /\ SubSeq(result.hex, 2 * d.at + 1, 2 * d.at + 2) = <<"5", "b">>

\* C3: between two IR bytes, the offset of every frame equals the number of
\* bytes emitted so far: by the frames below it and by itself.
C3_OffsetAccuracy ==
    pc = "running" => \A k \in 1..Len(frames) : frames[k].offset = EmittedUpTo(k)

\* a nested frame at the end of its body, after an argument reference that
\* emitted nothing, entered after an earlier invocation returned bytes
C3_Witness ==
    /\ pc = "running"
    /\ Len(frames) = 2
    /\ LoopDone
    /\ frames[1].index >= 1
    /\ Top.offset > 0
    /\ Resolved
    /\ lastArg.depth = 2
    /\ lastArg.before.index = Top.index - 1
    /\ lastArg.out.pushed = <<>>

\* the sole parameter of a one-parameter macro
SoleParam(m) == Def(m).parameters[1]

\* ms is the invocation stack of a chain of one-parameter macros: the first is
\* invoked with a literal, each next one with a reference to the parameter of
\* the macro that invokes it
IsForwardingChain(ms) ==
    /\ ms # <<>>
    /\ \A k \in 1..Len(ms) :
          Len(Def(ms[k].mi.name).parameters) = 1 /\ Len(ms[k].mi.args) = 1
    /\ ms[1].mi.args[1].k = "Literal"
    /\ \A k \in 2..Len(ms) : ms[k].mi.args[1] = ArgCallArg(SoleParam(ms[k - 1].mi.name))

\* the reference last resolved is the innermost macro's reference to its parameter
ChainCase ==
    /\ Resolved
    /\ IsForwardingChain(lastArg.mis)
    /\ lastArg.mis[Len(lastArg.mis)].mi.name = lastArg.macro_def
    /\ lastArg.name = SoleParam(lastArg.macro_def)

\* the same reference resolved with the innermost macro invoked from the root
\* with the root literal
DirectInvocation ==
    bubble_arg_call(lastArg.name, lastArg.macro_def, <<target, lastArg.macro_def>>,
                    <<[index |-> 0,
                       mi |-> MacroInvocation(lastArg.macro_def,
                                              <<lastArg.mis[1].mi.args[1]>>)]>>)

\* C6: in a chain of N nested one-parameter macros that each forward their
\* parameter to the next invocation, the innermost argument reference emits
\* the bytes it emits when the innermost macro is invoked directly with the
\* root literal, whatever the parameters are called.
C6_BubblingEquivalence ==
    ChainCase => /\ lastArg.out.res = DirectInvocation.res
                 /\ lastArg.out.pushed = DirectInvocation.pushed

\* C7: a reference to the parameter at position i of a macro entered by an
\* invocation whose i-th argument is a literal emits one PUSH of that literal
\* at minimum width, from the invocation on top of the invocation stack, and
\* advances offset by one plus the operand bytes.
C7_LiteralArgument ==
    BoundTo("Literal") =>
        LET v == LastInvocation.args[LastPos].val IN
        /\ LastInvocation.name = lastArg.macro_def
        /\ EmittedOnly(MinimalPush(v))
        /\ lastArg.after.offset = lastArg.before.offset + 1 + BytesNeeded(v)

\* the second parameter, bound to a two-byte literal
C7_Witness ==
    /\ BoundTo("Literal")
    /\ LastPos = 2
    /\ BytesNeeded(LastInvocation.args[LastPos].val) = 2
    /\ lastArg.after.offset = lastArg.before.offset + 3

\* C8: an argument reference resolves as a constant, then as an opcode, then
\* as a formal parameter, then as a label: a constant's name resolves to the
\* constant, an opcode mnemonic that is no constant to the one-byte opcode,
\* and a name bound as a formal parameter is never treated as a label.
C8_Precedence ==
    Resolved =>
        /\ IsConstantName(lastArg.name) =>
              /\ lastArg.out.via = "constant"
              /\ FindConstant(ast, lastArg.name)[1].k = "Literal" =>
                    EmittedOnly(MinimalPush(FindConstant(ast, lastArg.name)[1].val))
        /\ (~IsConstantName(lastArg.name) /\ IsOpcode(lastArg.name)) =>
              EmittedOnly(OpcodeTable[lastArg.name])
        /\ Bound => ~TreatedAsLabel(lastArg.name)

\* the name last resolved has no binding
Unbound ==
    /\ Resolved
    /\ ~IsConstantName(lastArg.name)
    /\ ~IsOpcode(lastArg.name)
    /\ \/ lastArg.mis = <<>>
       \/ LastPos = 0
       \/ LastPos > Len(LastInvocation.args)

\* C9: an argument reference that is no constant, no opcode and has no
\* binding is treated as a label reference, in a nested frame as at the root:
\* a pending jump is recorded, 61xxxx is emitted and offset advances by 3.
C9_LabelFallthrough == Unbound => TreatedAsLabel(lastArg.name)

\* C10: an argument reference whose actual argument is an identifier is
\* treated as a label call on that identifier: 61xxxx is emitted with a
\* pending jump for the identifier and offset advances by 3.
C10_IdentIsLabelCall ==
    BoundTo("Ident") => TreatedAsLabel(LastInvocation.args[LastPos].name)

(***************************************************************************)
(* Properties of churn.                                                    *)
(***************************************************************************)
Churned == lastChurn # NoCall

\* "6000396000f3"
BootstrapTail == StrOf(<<"6", "0", "0", "0", "3", "9", "6", "0", "0", "0", "f", "3">>)

\* constructor + "61" + size + "80" + "61" + offset + "6000396000f3" + runtime
\* + args, in lowercase, with four-digit size and offset fields
FourDigitLayout ==
    LET size == StrOf(FixedHex(StrLen(lastChurn.main) \div 2, 4))
        offset == StrOf(FixedHex(13 + StrLen(lastChurn.constructor) \div 2, 4))
    IN to_lowercase(
         StrCat(lastChurn.constructor,
         StrCat(StrOf(<<"6", "1">>),
         StrCat(size,
         StrCat(StrOf(<<"8", "0", "6", "1">>),
         StrCat(offset,
         StrCat(BootstrapTail,
         StrCat(lastChurn.main, JoinArgs(lastChurn.args)))))))))

\* four hex digits encode n
FitsFourDigits(n) == HexValue(FixedHex(n, 4)) = n

C5_NineByteBootstrap ==
    (/\ Churned
     /\ StrLen(lastChurn.main) \div 2 < 256
     /\ lastChurn.constructor = <<>>
     /\ lastChurn.args = <<>>) =>
        artifact.bytecode =
            StrCat(StrOf(<<"6", "0">>),
            StrCat(StrOf(FixedHex(StrLen(lastChurn.main) \div 2, 2)),
            StrCat(StrOf(<<"8", "0", "6", "0", "0", "9", "3", "d", "3", "9", "3", "d",
                           "f", "3">>),
                   to_lowercase(lastChurn.main))))

(***************************************************************************)
(* Properties of jump patching.                                            *)
(***************************************************************************)
\* the body of the root macro under generation
RootBody == Def(target).statements

\* the statements of kind t in a body
OfKind(body, t) == {i \in 1..Len(body) : body[i].t = t}

\* a finished top-level expansion
Finished == pc = "done" /\ ast # NoAst /\ Def(target) # NoMacro

\* every reference to label l stands, in the output, as a PUSH2 of the offset
\* of the declaration of l, where the output holds a JUMPDEST
PatchedTo(l) ==
    /\ result.kind = "ok"
    /\ \E r \in labelRefs : r.label = l
    /\ \A r \in labelRefs : r.label = l =>
          \E d \in labelDecls :
              /\ d.label = l
              /\ SubSeq(result.hex, 2 * r.at + 1, 2 * r.at + 6)
                    = <<"6", "1">> \o FixedHex(d.at, 4)
              /\ SubSeq(result.hex, 2 * d.at + 1, 2 * d.at + 2) = <<"5", "b">>

\* a macro whose body holds only literals, opcodes and references to label l,
\* of which at least one
RefersTo(m, l) ==
    /\ Def(m) # NoMacro
    /\ \A i \in 1..Len(Def(m).statements) :
          \/ Def(m).statements[i].t \in {"Literal", "Opcode"}
          \/ Def(m).statements[i] = LabelCallSt(l)
    /\ \E i \in 1..Len(Def(m).statements) : Def(m).statements[i] = LabelCallSt(l)

\* the root macro declares label l once, refers to no label itself, and
\* besides literals and opcodes invokes only macros that refer to l
CallerDeclares(l) ==
    /\ Finished
    /\ \A i \in 1..Len(RootBody) :
          RootBody[i].t \in {"Literal", "Opcode", "Label", "MacroInvocation"}
    /\ \A i \in OfKind(RootBody, "Label") : RootBody[i].name = l
    /\ Cardinality(OfKind(RootBody, "Label")) = 1
    /\ OfKind(RootBody, "MacroInvocation") # {}
    /\ \A i \in OfKind(RootBody, "MacroInvocation") : RefersTo(RootBody[i].name, l)

\* C11: a reference, inside an invoked macro, to a label that the invoking
\* macro declares is patched in the invoking frame with the offset of that
\* label, wherever the reference stands in the invoked macro's body.
C11_CallerPatchesJump ==
    CallerDeclares("end") => PatchedTo("end")

\* a macro whose body holds only literals, opcodes and argument references
\* that are no constant names: its expansion cannot fail
Harmless(m) ==
    /\ Def(m) # NoMacro
    /\ \A i \in 1..Len(Def(m).statements) :
          \/ Def(m).statements[i].t \in {"Literal", "Opcode"}
          \/ /\ Def(m).statements[i].t = "ArgCall"
             /\ ~IsConstantName(Def(m).statements[i].name)

\* the root macro refers to label l and declares it, once, later in its own
\* body; its other statements are literals, opcodes and invocations of
\* harmless macros without arguments
ForwardJump(l) ==
    /\ Finished
    /\ \A i \in 1..Len(RootBody) :
          RootBody[i].t \in {"Literal", "Opcode", "Label", "LabelCall", "MacroInvocation"}
    /\ \A i \in OfKind(RootBody, "Label") \cup OfKind(RootBody, "LabelCall") :
          RootBody[i].name = l
    /\ Cardinality(OfKind(RootBody, "Label")) = 1
    /\ OfKind(RootBody, "LabelCall") # {}
    /\ \A i \in OfKind(RootBody, "LabelCall") :
          \A j \in OfKind(RootBody, "Label") : i < j
    /\ \A i \in OfKind(RootBody, "MacroInvocation") :
          Harmless(RootBody[i].name) /\ RootBody[i].args = <<>>

\* C12: a reference to a label declared later in the same macro body is
\* patched by that frame's second pass with the label's offset, whatever
\* statements precede the reference.
C12_ForwardJumpPatched ==
    ForwardJump("end") => PatchedTo("end")

(***************************************************************************)
(* Properties of the errors of the top-level generator.                    *)
(***************************************************************************)
\* the frame on top is at a constant reference whose constant is missing or
\* is a storage pointer without a value
ConstantFails ==
    /\ InLoop
    /\ Cur.t = "Constant"
    /\ \/ FindConstant(ast, Cur.st.name) = <<>>
       \/ FindConstant(ast, Cur.st.name)[1].k = "FreeStoragePointer"

\* the kind of error the constant reference on top fails with
ConstantErrorKind ==
    IF FindConstant(ast, Cur.st.name) = <<>>
    THEN <<"MissingConstantDefinition">>
    ELSE <<"StoragePointersNotDerived">>

\* C13: when expansion fails at a constant reference, at any nesting depth,
\* the top-level generator returns the error kind of that failure.
C13_ConstantErrorKindKept ==
    [][ConstantFails => (result'.kind = "err" /\ result'.err = ConstantErrorKind)]_vars

(***************************************************************************)
(* Properties of the PUSH of a literal.                                    *)
(***************************************************************************)
\* PUSH<N> v where N is the least number of bytes that holds v, and a value
\* of zero takes zeroBytes bytes
WidthPush(v, zeroBytes) ==
    LET n == IF v = 0 THEN zeroBytes ELSE BytesNeeded(v)
    IN FixedHex(95 + n, 2) \o FixedHex(v, 2 * n)

\* the frame on top is at a reference to a constant that is a literal
ConstantInlined ==
    /\ InLoop
    /\ Cur.t = "Constant"
    /\ FindConstant(ast, Cur.st.name) # <<>>
    /\ FindConstant(ast, Cur.st.name)[1].k = "Literal"

\* the fragments the step adds to the frame on top
NewFragments ==
    SubSeq(frames'[Len(frames)].final_bytes, Len(Top.final_bytes) + 1,
           Len(frames'[Len(frames)].final_bytes))

\* the argument reference last resolved is the name of a literal constant
ShadowedByLiteral ==
    /\ Resolved
    /\ IsConstantName(lastArg.name)
    /\ FindConstant(ast, lastArg.name)[1].k = "Literal"

\* every literal inlined by the step, or by the argument reference last
\* resolved, is one fragment: its PUSH at the width WidthPush gives it
LiteralsPushedAs(zeroBytes) ==
    /\ ConstantInlined =>
          NewFragments = <<WidthPush(FindConstant(ast, Cur.st.name)[1].val, zeroBytes)>>
    /\ ShadowedByLiteral =>
          lastArg.out.pushed =
              <<WidthPush(FindConstant(ast, lastArg.name)[1].val, zeroBytes)>>
    /\ BoundTo("Literal") =>
          lastArg.out.pushed = <<WidthPush(LastInvocation.args[LastPos].val, zeroBytes)>>

\* C14 as stated: a literal L inlined from a constant, from an argument
\* reference shadowed by a constant or from a literal macro argument is the
\* opcode byte 0x5f + N and N operand bytes with N = ceil(bit_width(L) / 8),
\* which is zero bytes for L = 0.
C14_CeilBitWidth ==
    [][LiteralsPushedAs(0)]_vars

\* C14: the fragment is the opcode byte 0x5f + N and N operand bytes where N
\* is the least number of bytes, at least one, that holds L: a literal of
\* zero is pushed as 6000.
C14_PushMinimality ==
    [][LiteralsPushedAs(1)]_vars

\* a finished expansion that inlined a zero from the constant K
C14_Witness ==
    /\ Finished
    /\ RootBody = <<ConstantSt("K")>>
    /\ FindConstant(ast, "K") = <<ConstLiteral("K", 0)>>
    /\ result = Ok(<<"6", "0", "0", "0">>)

(***************************************************************************)
(* recurse_bytecode entered at an offset other than zero: the public       *)
(* function called for the macro MAIN of the contract with the offset its  *)
(* caller has reached, as a frame is entered after that many bytes were    *)
(* emitted before it.  The result holds the bytes of the BytecodeRes,      *)
(* joined.                                                                 *)
(***************************************************************************)
\* the offsets a frame is entered at: three and seven bytes before the first
\* offset that does not fit four hex digits
StartOffsets == {Hex4Limit - 7, Hex4Limit - 3}

Recurse ==
    /\ pc = "idle"
    /\ ast # NoAst
    /\ find_macro_by_name(ast, "MAIN") # NoMacro
    /\ \E offset \in StartOffsets : frames' = <<NewFrame("MAIN", offset)>>
    /\ target' = "MAIN"
    /\ scope' = <<"MAIN">>
    /\ mis' = <<>>
    /\ pc' = "running"
    /\ result' = NoResult
    /\ labelRefs' = {}
    /\ labelDecls' = {}
    /\ lastArg' = NoArgCall
    /\ entered' = <<>>
    /\ UNCHANGED <<ast, artifact, lastChurn, lastAbi, earlier, lexer>>

NextRecurse ==
    \/ Recurse
    \/ StepBytes
    \/ StepConstant
    \/ StepMacroInvocation
    \/ StepLabel
    \/ StepLabelCall
    \/ StepArgCall
    \/ Return
    \/ RootReturn

SpecRecurse == Init /\ [][NextRecurse]_vars

(***************************************************************************)
(* Properties of the emitted fragments.                                    *)
(***************************************************************************)
\* every fragment a frame holds: those of its first pass and, once a child
\* returned, the child's fragments after its second pass
Fragments ==
    UNION {{frames[k].final_bytes[i] : i \in 1..Len(frames[k].final_bytes)} :
              k \in 1..Len(frames)}

\* C15: every fragment the expander emits has even hex length, after the
\* first pass and after jump patching, and every hex string it returns has
\* even length.
C15_EvenLength ==
    /\ \A b \in Fragments : Len(b) % 2 = 0
    /\ result.kind = "ok" => Len(result.hex) % 2 = 0

(***************************************************************************)
(* roll and construct called again on the same contract: the outer driver  *)
(* calls the generators one after the other, in either order.              *)
(***************************************************************************)
\* the driver takes what the top-level call returned and goes on to its next
\* call; the first result of each generator is remembered
CallAgain ==
    /\ pc = "done"
    /\ pc' = "idle"
    /\ earlier' = [earlier EXCEPT ![target] = IF @ = NoResult THEN result ELSE @]
    /\ UNCHANGED <<ast, target, frames, scope, mis, result, labelRefs, labelDecls,
                   lastArg, artifact, lastChurn, lastAbi, lexer, entered>>

NextAgain ==
    \/ Roll
    \/ Construct
    \/ StepBytes
    \/ StepConstant
    \/ StepMacroInvocation
    \/ StepLabel
    \/ StepLabelCall
    \/ StepArgCall
    \/ Return
    \/ RootReturn
    \/ CallAgain

\* the contracts the generators are called on again: MAIN bodies one
\* statement shorter than MaxBody and the longer bodies, with every constant
\* list; CONSTRUCTOR has a jump to patch
AgainContracts ==
    {Contract(<<MacroDefinition("MAIN", <<>>, b),
                MacroDefinition("CONSTRUCTOR", <<>>, PushAndJump)>>, c) :
        b \in SeqsUpTo(RootStatements, MaxBody - 1) \cup CuratedBodies,
        c \in ConstantLists}
    \cup {Contract(<<MacroDefinition("CONSTRUCTOR", <<>>, PushAndJump)>>, <<>>),
          Contract(<<MacroDefinition("MAIN", <<"a">>, <<ArgCallSt("a")>>)>>, <<>>)}

InitAgain ==
    /\ ast \in AgainContracts \cup {NoAst}
    /\ pc = "idle"
    /\ target = ""
    /\ frames = <<>>
    /\ scope = <<>>
    /\ mis = <<>>
    /\ result = NoResult
    /\ labelRefs = {}
    /\ labelDecls = {}
    /\ lastArg = NoArgCall
    /\ artifact = NoArtifact
    /\ lastChurn = NoCall
    /\ lastAbi = NoCall
    /\ earlier = NoEarlier
    /\ entered = <<>>
    /\ lexer = NoLexer

SpecAgain == InitAgain /\ [][NextAgain]_vars

ReturnsAtOnce(kind) ==
    /\ pc' = "done"
    /\ result' = Err(kind)
    /\ frames' = <<>>
    /\ labelRefs' = {} /\ labelDecls' = {} /\ lastArg' = NoArgCall

\* C17: roll returns MissingMacroDefinition("MAIN") when the contract has no
\* macro MAIN, construct returns MissingConstructor when it has no macro
\* CONSTRUCTOR, and both return MissingAst when given no contract; in each
\* case the call returns without an expansion step.
C17_MissingRoot ==
    [][(pc = "idle" /\ pc' # "idle") =>
          /\ ast = NoAst => ReturnsAtOnce(<<"MissingAst">>)
          /\ (ast # NoAst /\ target' = "MAIN"
                /\ find_macro_by_name(ast, "MAIN") = NoMacro) =>
                 ReturnsAtOnce(<<"MissingMacroDefinition", "MAIN">>)
          /\ (ast # NoAst /\ target' = "CONSTRUCTOR"
                /\ find_macro_by_name(ast, "CONSTRUCTOR") = NoMacro) =>
                 ReturnsAtOnce(<<"MissingConstructor">>)]_vars

\* construct has returned MissingConstructor on a contract that has a MAIN
C17_Witness ==
    /\ pc = "done"
    /\ ast # NoAst
    /\ target = "CONSTRUCTOR"
    /\ find_macro_by_name(ast, "MAIN") # NoMacro
    /\ find_macro_by_name(ast, "CONSTRUCTOR") = NoMacro
    /\ result = Err(<<"MissingConstructor">>)

(***************************************************************************)
(* The expansion of `0x01 end jumpi end: stop`.                            *)
(***************************************************************************)
\* "6001610006575b00"
PushAndJumpHex ==
    <<"6", "0", "0", "1", "6", "1", "0", "0", "0", "6", "5", "7", "5", "b", "0", "0">>

\* C18: a root macro whose body lowers to 6001, a reference to label end, 57,
\* the declaration of end and 00 expands to "6001610006575b00": end is
\* recorded at byte offset 6 and the reference is patched to 0006.
C18_PushAndJump ==
    (Finished /\ RootBody = PushAndJump) =>
        /\ result = Ok(PushAndJumpHex)
        /\ labelDecls = {[label |-> "end", at |-> 6]}
        /\ labelRefs = {[label |-> "end", at |-> 2]}

\* roll has returned from a contract whose MAIN is that body
C18_Witness ==
    /\ Finished
    /\ target = "MAIN"
    /\ RootBody = PushAndJump
    /\ result.kind = "ok"
    /\ Len(result.hex) = 16

(***************************************************************************)
(* The lexer (huff_lexer::Lexer).                                          *)
(*                                                                         *)
(* A source is a sequence of ASCII characters, each a one-character        *)
(* string, so that a count of characters is a count of bytes; None of an   *)
(* Option<char> is the empty string.  Positions are zero-based as in the   *)
(* code: the span [start, end) covers source[start + 1 .. end] here.       *)
(***************************************************************************)
\* the longest source that is enumerated
MaxSource == 3

Letters == {"a", "b", "c", "d", "e", "f", "g", "h", "i", "j", "k", "l", "m",
            "n", "o", "p", "q", "r", "s", "t", "u", "v", "w",
            "x", "y", "z", "A", "Z"}
Digits == {"0", "1", "2", "5", "6"}
Whitespace == {" ", "\n"}
Punctuation == {"=", "(", ")", "[", "]", "{", "}", "+", "-", "*", ","}
AllChars == Letters \cup Digits \cup Whitespace \cup Punctuation
                \cup {"/", "#", "_", "\"", "\\", "$"}

\* char::is_alphabetic, char::is_alphanumeric, char::is_ascii_digit and
\* char::is_ascii_whitespace, as the sets of characters they accept
is_alphabetic == Letters
is_alphanumeric == Letters \cup Digits
is_ascii_digit == Digits
is_ascii_whitespace == Whitespace

define_keyword == <<"#", "d", "e", "f", "i", "n", "e">>
include_keyword == <<"#", "i", "n", "c", "l", "u", "d", "e">>
function_keyword == <<"f", "u", "n", "c", "t", "i", "o", "n">>
macro_keyword == <<"m", "a", "c", "r", "o">>
constant_keyword == <<"c", "o", "n", "s", "t", "a", "n", "t">>
takes_key == <<"t", "a", "k", "e", "s">>
returns_key == <<"r", "e", "t", "u", "r", "n", "s">>

NoChar == ""

NewSpan(start, end) == [start |-> start, end |-> end]

\* Lexer::new; EOF is the constant Span::EOF of huff_utils
Lexer_new(source, EOF) ==
    [source |-> source, chars |-> 0, span |-> NewSpan(0, 0), eof |-> FALSE,
     EOF |-> EOF]

current_span(lx) == IF lx.eof THEN lx.EOF ELSE lx.span

\* self.chars.peek().copied(): chars counts the characters the iterator gave
peek(lx) == IF lx.chars < Len(lx.source) THEN lx.source[lx.chars + 1] ELSE NoChar

\* self.chars.clone().nth(n)
nthpeek(lx, n) ==
    IF lx.chars + n < Len(lx.source) THEN lx.source[lx.chars + n + 1] ELSE NoChar

\* the n + (end - start) characters from span.start, or the empty string
\* when they reach past the end of the source
peeknchars(lx, n) ==
    IF lx.span.end + n > Len(lx.source) THEN <<>>
    ELSE SubSeq(lx.source, lx.span.start + 1, lx.span.end + n)

peekncharsfrom(lx, n, from) == SubSeq(lx.source, from + 1, from + n)

try_look_back(lx, dist) ==
    IF lx.span.start >= dist THEN peekncharsfrom(lx, dist - 1, lx.span.start - dist)
    ELSE <<>>

slice(lx) == SubSeq(lx.source, lx.span.start + 1, lx.span.end)

consume(lx) ==
    IF lx.chars < Len(lx.source)
    THEN [lx EXCEPT !.chars = @ + 1, !.span.end = @ + 1]
    ELSE lx

\* while self.peek() != None: stop when the word stands at current_pos, else
\* consume one character and move current_pos on by one
RECURSIVE seq_consume_from(_, _, _)
seq_consume_from(lx, word, current_pos) ==
    IF peek(lx) = NoChar THEN lx
    ELSE IF current_pos + Len(word) <= Len(lx.source)
            /\ peekncharsfrom(lx, Len(word), current_pos) = word THEN lx
    ELSE seq_consume_from(consume(lx), word, current_pos + 1)

seq_consume(lx, word) == seq_consume_from(lx, word, lx.span.start)

\* while the next character passes the filter f, consume it
RECURSIVE dyn_consume(_, _)
dyn_consume(lx, f) ==
    IF peek(lx) # NoChar /\ peek(lx) \in f THEN dyn_consume(consume(lx), f) ELSE lx

reset(lx) == [lx EXCEPT !.span.start = lx.span.end]

\* what next returns: Some(Ok(token)), Some(Err(error)) or None
TokenItem(kind, span) == [res |-> "ok", kind |-> kind, span |-> span]
ErrorItem(kind, span) == [res |-> "err", kind |-> kind, span |-> span]
NoneItem == [res |-> "none", kind |-> "", span |-> NewSpan(0, 0)]

\* the outcome of a match arm: the lexer, and the kind of token or the error
\* the arm returns with
Kind(lx, kind) == [lx |-> lx, done |-> FALSE, item |-> TokenItem(kind, lx.span)]
Returned(lx, item) == [lx |-> lx, done |-> TRUE, item |-> item]

\* the arm of '/'
LexSlash(lx) ==
    IF peek(lx) = "/" THEN
        Kind(dyn_consume(consume(lx), AllChars \ {"\n"}), "Comment")
    ELSE IF peek(lx) = "*" THEN
        Kind(seq_consume(consume(lx), <<"*", "/">>), "Comment")
    ELSE Kind(lx, "Div")

\* the arm of '#'
LexHash(lx) ==
    IF peeknchars(lx, Len(define_keyword) - 1) = define_keyword THEN
        Kind(dyn_consume(lx, is_alphabetic), "Define")
    ELSE IF peeknchars(lx, Len(include_keyword) - 1) = include_keyword THEN
        Kind(dyn_consume(lx, is_alphabetic), "Include")
    ELSE Returned(lx, ErrorItem("InvalidCharacter", current_span(lx)))

\* the arm of an alphabetic character
LexWord(lx) ==
    LET is_not_func_name ==
            try_look_back(lx, Len(function_keyword) + 1) # function_keyword
        Is(keyword) ==
            peeknchars(lx, Len(keyword) - 1) = keyword /\ is_not_func_name
    IN  IF Is(macro_keyword) THEN Kind(dyn_consume(lx, is_alphabetic), "Macro")
        ELSE IF Is(function_keyword) THEN Kind(dyn_consume(lx, is_alphabetic), "Function")
        ELSE IF Is(constant_keyword) THEN Kind(dyn_consume(lx, is_alphabetic), "Constant")
        ELSE IF Is(takes_key) THEN Kind(dyn_consume(lx, is_alphabetic), "Takes")
        ELSE IF Is(returns_key) THEN Kind(dyn_consume(lx, is_alphabetic), "Returns")
        ELSE Kind(dyn_consume(lx, is_alphanumeric \cup {"_"}), "Ident")

\* the arm of '"': the loop up to the closing quote
RECURSIVE LexStr(_)
LexStr(lx) ==
    IF peek(lx) = "\"" THEN Kind(consume(lx), "Str")
    ELSE IF peek(lx) = "\\" /\ nthpeek(lx, 1) \in {"\\", "\""} THEN
        LexStr(consume(consume(lx)))
    ELSE IF peek(lx) # NoChar THEN LexStr(consume(lx))
    ELSE Returned([lx EXCEPT !.eof = TRUE], ErrorItem("UnexpectedEof", lx.span))

Single == [c \in Punctuation |->
    CASE c = "=" -> "Assign" [] c = "(" -> "OpenParen" [] c = ")" -> "CloseParen"
      [] c = "[" -> "OpenBracket" [] c = "]" -> "CloseBracket"
      [] c = "{" -> "OpenBrace" [] c = "}" -> "CloseBrace"
      [] c = "+" -> "Add" [] c = "-" -> "Sub" [] c = "*" -> "Mul"
      [] OTHER -> "Comma"]

\* match ch { .. } after the first character ch of the token was consumed
LexMatch(lx, ch) ==
    CASE ch = "/" -> LexSlash(lx)
      [] ch = "#" -> LexHash(lx)
      [] ch \in is_alphabetic -> LexWord(lx)
      [] ch \in Punctuation -> Kind(lx, Single[ch])
      [] ch \in is_ascii_digit -> Kind(dyn_consume(lx, is_ascii_digit), "Num")
      [] ch \in is_ascii_whitespace ->
            Kind(dyn_consume(lx, is_ascii_whitespace), "Whitespace")
      [] ch = "\"" -> LexStr(lx)
      [] OTHER -> Returned(lx, ErrorItem("InvalidCharacter", lx.span))

\* Iterator::next: the lexer it leaves and the item it returns
next(lexer0) ==
    LET lx == reset(lexer0) IN
    IF peek(lx) = NoChar THEN [lx |-> [lx EXCEPT !.eof = TRUE], item |-> NoneItem]
    ELSE LET m == LexMatch(consume(lx), peek(lx)) IN
         IF m.done THEN [lx |-> m.lx, item |-> m.item]
         ELSE [lx |-> IF peek(m.lx) = NoChar THEN [m.lx EXCEPT !.eof = TRUE] ELSE m.lx,
               item |-> TokenItem(m.item.kind, m.lx.span)]

(***************************************************************************)
(* The sources the lexer is run on.                                        *)
(***************************************************************************)
\* the characters the enumerated sources are made of
SourceChars == {"/", "*", "\n", "#", "a", "_", "1", " ", "\"", "\\", "(", "$"}

\* longer sources, with the keywords
CuratedSources == {
    \* #define function test() view returns (uint256)
    <<"#", "d", "e", "f", "i", "n", "e", " ", "f", "u", "n", "c", "t", "i",
          "o", "n", " ", "t", "e", "s", "t", "(", ")", " ", "v", "i", "e",
          "w", " ", "r", "e", "t", "u", "r", "n", "s", " ", "(", "u", "i",
          "n", "t", "2", "5", "6", ")">>,
    \* #include "a"
    <<"#", "i", "n", "c", "l", "u", "d", "e", " ", "\"", "a", "\"">>,
    \* /* a */ 1
    <<"/", "*", " ", "a", " ", "*", "/", " ", "1">>,
    \* function macro
    <<"f", "u", "n", "c", "t", "i", "o", "n", " ", "m", "a", "c", "r", "o">>,
    \* #define constant A = 1
    <<"#", "d", "e", "f", "i", "n", "e", " ", "c", "o", "n", "s", "t", "a",
          "n", "t", " ", "A", " ", "=", " ", "1">>,
    \* takes(1)returns(1)
    <<"t", "a", "k", "e", "s", "(", "1", ")", "r", "e", "t", "u", "r", "n",
          "s", "(", "1", ")">>,
    \* "a\"b" a
    <<"\"", "a", "\\", "\"", "b", "\"", " ", "a">>,
    \* // a\nb
    <<"/", "/", " ", "a", "\n", "b">>,
    \* #define macro A
    <<"#", "d", "e", "f", "i", "n", "e", " ", "m", "a", "c", "r", "o", " ",
          "A">>,
    \* #defin
    <<"#", "d", "e", "f", "i", "n">>,
    \* "a
    <<"\"", "a">>,
    \* a/b
    <<"a", "/", "b">>,
    \* [a]{1}+-*,=
    <<"[", "a", "]", "{", "1", "}", "+", "-", "*", ",", "=">>,
    \* #defines a
    <<"#", "d", "e", "f", "i", "n", "e", "s", " ", "a">>,
    \* macros(1)
    <<"m", "a", "c", "r", "o", "s", "(", "1", ")">>
}

Sources == (SeqsUpTo(SourceChars, MaxSource) \ {<<>>}) \cup CuratedSources \cup {<<>>}

\* the values Span::EOF may have: it is a constant of huff_utils
SpanEOFs == {NewSpan(0, e) : e \in 0..MaxSource}

\* one call of next on the lexer; after None no further call is made
LexNext ==
    /\ lexer # NoLexer
    /\ IF lexer.items = <<>> THEN TRUE
       ELSE lexer.items[Len(lexer.items)].res # "none"
    /\ LET r == next(lexer.lx)
       IN lexer' = [lx |-> r.lx, items |-> Append(lexer.items, r.item)]
    /\ UNCHANGED <<expanderVars, artifact, lastChurn, lastAbi>>

InitLexer ==
    /\ ast = NoAst
    /\ pc = "idle"
    /\ target = ""
    /\ frames = <<>>
    /\ scope = <<>>
    /\ mis = <<>>
    /\ result = NoResult
    /\ labelRefs = {}
    /\ labelDecls = {}
    /\ lastArg = NoArgCall
    /\ artifact = NoArtifact
    /\ lastChurn = NoCall
    /\ lastAbi = NoCall
    /\ earlier = NoEarlier
    /\ entered = <<>>
    /\ \E source \in Sources, EOF \in SpanEOFs :
          lexer = [lx |-> Lexer_new(source, EOF), items |-> <<>>]

NextLexer == LexNext

SpecLexer == InitLexer /\ [][NextLexer]_vars

(***************************************************************************)
(* Properties of the lexer.                                                *)
(***************************************************************************)
\* the item next returned last
LastItem == lexer.items[Len(lexer.items)]

\* next has returned a token and every character of a non-empty source is
\* consumed: that token is the last one
LastTokenReturned ==
    /\ lexer # NoLexer
    /\ lexer.items # <<>>
    /\ LastItem.res = "ok"
    /\ lexer.lx.source # <<>>
    /\ lexer.lx.chars = Len(lexer.lx.source)

\* C19: after the lexer has returned the last token of a non-empty source,
\* lexer.eof is true and lexer.current_span().end is the length of the source.
C19_EofSpanEnd ==
    LastTokenReturned =>
        /\ lexer.lx.eof
        /\ current_span(lexer.lx).end = Len(lexer.lx.source)

(***************************************************************************)
(* The invocation stack.  A frame of recurse_bytecode at nesting depth d   *)
(* is the frame d + 1 of frames: the root frame is at depth 0.             *)
(***************************************************************************)
\* the nesting depth of the frame that is running
Depth == Len(frames) - 1

\* the entry a frame pushes when it enters the invocation its loop is at
CallsiteOf(f) ==
    [index |-> f.index, mi |-> Def(f.macro_def).statements[f.index + 1]]

\* while the running frame processes its IR bytes the stack holds one entry for
\* each frame above the root, and its top entry is the one that entered the
\* running frame
StackAtDepth ==
    InLoop =>
        /\ Len(mis) = Depth
        /\ Depth > 0 => mis[Len(mis)] = CallsiteOf(frames[Depth])

\* a step in which a child expansion returns successfully to its caller
ChildReturns ==
    /\ LoopDone /\ Len(frames) > 1
    /\ pc' = "running" /\ Len(frames') = Len(frames) - 1

\* a step in which a frame ends and its pop finds the stack empty
PopFindsEmpty == LoopDone /\ mis = <<>> /\ frames' # frames

\* C20: while a frame at nesting depth d processes its IR bytes the invocation
\* stack holds exactly d entries and, for d > 0, its top entry is the callsite
\* index and invocation that entered the frame; after a child expansion returned
\* successfully the stack is what it was before the caller pushed the child's
\* entry; and only the pop of the root frame finds the stack empty
C20_InvocationStackBalanced ==
    [][/\ StackAtDepth'
       /\ ChildReturns => mis' = entered[Len(entered)]
       /\ PopFindsEmpty => Len(frames) = 1]_vars

\* a nested frame whose own child has returned goes on with its IR bytes, and a
\* second invocation inside it has still to be entered
C20_Witness ==
    /\ InLoop /\ Depth = 1
    /\ Top.index > 0
    /\ Def(Top.macro_def).statements[Top.index].t = "MacroInvocation"
    /\ Cur.t = "Statement" /\ Cur.st.t = "MacroInvocation"
    /\ mis = <<CallsiteOf(frames[1])>>
    /\ entered = <<(<<>>)>>

(***************************************************************************)
(* The scope stack.                                                        *)
(***************************************************************************)
\* the macros being expanded, outermost first
ExpansionChain == [i \in 1..Len(frames) |-> frames[i].macro_def]

\* C21: at every point of an expansion the scope stack is the chain of macro
\* definitions being expanded, most recent last: its length is the length of
\* the invocation stack plus one and its last element is the macro of the frame
\* being processed, also after earlier sibling invocations have returned
C21_ScopeIsChain ==
    pc = "running" =>
        /\ scope = ExpansionChain
        /\ Len(scope) = Len(mis) + 1
        /\ scope[Len(scope)] = Top.macro_def

(***************************************************************************)
(* Bubbling an argument reference up to the caller.                        *)
(***************************************************************************)
\* the macro whose body holds the invocation on top of the stack ms
CallerOf(ms) == IF Len(ms) > 1 THEN ms[Len(ms) - 1].mi.name ELSE target

\* the reference last resolved stands in the macro M entered last, and M's
\* invocation binds its parameter to a reference of the caller
BubblesUp ==
    /\ BoundTo("ArgCall")
    /\ LastInvocation.name = lastArg.macro_def
    /\ Len(lastArg.scope) > 1

\* the recursive call made for the reference last resolved
LastReentry ==
    Reentry(lastArg.name, LastInvocation.args[LastPos].name, lastArg.macro_def,
            lastArg.scope, lastArg.mis)

ReentryName == LastReentry.arg_name = LastInvocation.args[LastPos].name
ReentryCaller == LastReentry.macro_def = CallerOf(lastArg.mis)
ReentryStack == LastReentry.mis = DropLast(lastArg.mis)

\* C22: when an argument reference in macro M is bound to ArgCall(inner),
\* resolution goes on with the name inner, against the macro whose body holds
\* the invocation of M, with the invocation stack without M's entry; also when
\* the caller expanded other invocations before it invoked M
C22_BubblesToCaller ==
    BubblesUp => (ReentryName /\ ReentryCaller /\ ReentryStack)

(***************************************************************************)
(* The second pass: what it writes and what it leaves alone.               *)
(***************************************************************************)
\* the jumps the second pass of frame f finds for its fragments
JumpsFound(f) ==
    UNION {{f.jump_table[FragmentKey(i - 1)][n] :
               n \in 1..Len(f.jump_table[FragmentKey(i - 1)])} :
           i \in {j \in 1..Len(f.final_bytes) : FragmentKey(j - 1) \in DOMAIN f.jump_table}}

\* the jump destinations the second pass of frame f writes
DestinationsWritten(f) ==
    {JumpValue(f.jump_indices[j.label]) :
        j \in {x \in JumpsFound(f) : x.label \in DOMAIN f.jump_indices}}

\* the second pass of the running frame goes through without a panic
Patches == LoopDone /\ ~SecondPass(Top).panic

\* the second pass leaves as many fragments as it found, each of its length
SameLengths(f) ==
    /\ Len(SecondPass(f).bytes) = Len(f.final_bytes)
    /\ \A i \in 1..Len(f.final_bytes) :
          Len(SecondPass(f).bytes[i]) = Len(f.final_bytes[i])

\* C23: every jump destination the second pass writes is exactly four hex
\* characters, so patching never changes the length of a fragment, whatever
\* offset the label was recorded at, offsets of 65536 bytes or more included
C23_FourHexDestination ==
    Patches =>
        /\ \A d \in DestinationsWritten(Top) : Len(d) = 4
        /\ SameLengths(Top)

\* position c of fragment b is part of an "xxxx" placeholder
InPlaceholder(b, c) ==
    \E s \in 1..(Len(b) - 3) : s <= c /\ c <= s + 3 /\ SubSeq(b, s, s + 3) = Placeholder

\* C24: the second pass of a frame changes only placeholder characters: every
\* character of the frame's output that was not part of an "xxxx" placeholder
\* after the first pass is the same after patching, and the number and order of
\* the fragments is unchanged, for every macro body, those in which the
\* statement index of a pending jump differs from the position of its fragment
\* included
C24_OnlyPlaceholdersChange ==
    Patches =>
        /\ Len(SecondPass(Top).bytes) = Len(Top.final_bytes)
        /\ \A i \in 1..Len(Top.final_bytes) :
              \A c \in 1..Len(Top.final_bytes[i]) :
                  ~InPlaceholder(Top.final_bytes[i], c) =>
                      /\ c <= Len(SecondPass(Top).bytes[i])
                      /\ SecondPass(Top).bytes[i][c] = Top.final_bytes[i][c]

(***************************************************************************)
(* The cached artifact after churn and abi_gen calls in any order.         *)
(***************************************************************************)
\* the bytecode, runtime and file of art are those the churn call c sets
SetByChurn(art, c) ==
    /\ art.bytecode = ChurnBytecode(c.args, c.main, c.constructor)
    /\ art.runtime = to_lowercase(c.main)
    /\ art.file = c.file

\* the bytecode, runtime and file of art are those of Artifact::default()
ChurnDefaults(art) ==
    /\ art.bytecode = DefaultArtifact.bytecode
    /\ art.runtime = DefaultArtifact.runtime
    /\ art.file = DefaultArtifact.file

\* C25: after any sequence of churn and abi_gen calls on one Codegen, the abi
\* of the cached artifact is the one set by the latest abi_gen (absent if
\* none) and its bytecode, runtime and file are those set by the latest churn
\* (defaults if none): churn leaves the abi alone, abi_gen leaves bytecode,
\* runtime and file alone; a new Codegen has no artifact
C25_ArtifactFields ==
    IF lastChurn = NoCall /\ lastAbi = NoCall THEN artifact = NoArtifact
    ELSE /\ artifact # NoArtifact
         /\ artifact.abi = lastAbi
         /\ IF lastChurn = NoCall THEN ChurnDefaults(artifact)
            ELSE SetByChurn(artifact, lastChurn)

\* both have been called, and each has left something other than the default
C25_Witness ==
    /\ lastChurn # NoCall /\ lastAbi # NoCall
    /\ artifact # NoArtifact
    /\ artifact.abi = AbiOf(<<"test1">>)
    /\ artifact.runtime # <<>>
    /\ artifact.file = "b.huff"

(***************************************************************************)
(* Termination.  recurse_bytecode runs to its end once it is called: every *)
(* step of an expansion under way is taken.  A recursion deeper than       *)
(* MaxDepth frames is followed no further; the expansion then stays        *)
(* without a result, as one that recurses without bound does.              *)
(***************************************************************************)
Expand ==
    \/ StepBytes
    \/ StepConstant
    \/ StepMacroInvocation
    \/ StepLabel
    \/ StepLabelCall
    \/ StepArgCall
    \/ Return
    \/ RootReturn

\* bodies in which a recursive macro comes after a statement that fails, after
\* one that emits bytes, and first
RecursionBodies == {
    <<MacroInvocation("NOSUCH", <<>>), MacroInvocation("REC", <<>>)>>,
    <<ConstantSt("K"), MacroInvocation("MUT1", <<>>)>>,
    <<MacroInvocation("TWO", <<>>), MacroInvocation("REC", <<>>)>>,
    <<MacroInvocation("REC", <<>>), OpcodeSt("stop")>>
}

\* the contracts termination is followed on: MAIN bodies of one statement, the
\* longer bodies and the bodies with a recursion, with every constant list
TerminationContracts ==
    {Contract(<<MacroDefinition("MAIN", <<>>, b),
                MacroDefinition("CONSTRUCTOR", <<>>, PushAndJump)>>, c) :
        b \in {<<s>> : s \in RootStatements} \cup CuratedBodies \cup RecursionBodies,
        c \in ConstantLists}

InitFair ==
    /\ ast \in TerminationContracts
    /\ pc = "idle"
    /\ target = ""
    /\ frames = <<>>
    /\ scope = <<>>
    /\ mis = <<>>
    /\ result = NoResult
    /\ labelRefs = {}
    /\ labelDecls = {}
    /\ lastArg = NoArgCall
    /\ artifact = NoArtifact
    /\ lastChurn = NoCall
    /\ lastAbi = NoCall
    /\ earlier = NoEarlier
    /\ entered = <<>>
    /\ lexer = NoLexer

SpecFair == InitFair /\ [][Next]_vars /\ WF_vars(Expand)

\* the macros of the contract that the body of macro m invokes
Invokes(m) ==
    {Def(m).statements[i].name : i \in OfKind(Def(m).statements, "MacroInvocation")}
        \cap {Macros(ast)[k].name : k \in 1..Len(Macros(ast))}

\* the macros reached from those of S by any number of further invocations
RECURSIVE ReachFrom(_)
ReachFrom(S) ==
    LET more == S \cup UNION {Invokes(m) : m \in S}
    IN IF more = S THEN S ELSE ReachFrom(more)

\* the macros reachable from m in the invocation graph, m itself only if it is
\* on a cycle
Descendants(m) == ReachFrom(Invokes(m))

\* some macro reachable from the root invokes itself, directly or through
\* other macros
Cyclic ==
    /\ ast # NoAst /\ Def(target) # NoMacro
    /\ \E m \in {target} \cup Descendants(target) : m \in Descendants(m)

Acyclic == ast # NoAst /\ Def(target) # NoMacro /\ ~Cyclic

Items == SelectSeq(lexer.items, LAMBDA it : it.res # "none")

\* the characters of the source a span covers
Covered(span) == SubSeq(lexer.lx.source, span.start + 1, span.end)

\* the keyword a token kind stands for
KeywordOf == [Define |-> define_keyword, Include |-> include_keyword,
              Function |-> function_keyword, Macro |-> macro_keyword,
              Constant |-> constant_keyword, Takes |-> takes_key,
              Returns |-> returns_key]

\* s is a lexeme of the token kind: the keyword itself, the one character of a
\* punctuation token, and for the other kinds characters of its class
IsLexeme(kind, s) ==
    CASE kind \in DOMAIN KeywordOf -> s = KeywordOf[kind]
      [] kind = "Div" -> s = <<"/">>
      [] kind = "Ident" -> /\ s # <<>> /\ s[1] \in is_alphabetic
                           /\ \A i \in 1..Len(s) : s[i] \in is_alphanumeric \cup {"_"}
      [] kind = "Num" -> s # <<>> /\ \A i \in 1..Len(s) : s[i] \in is_ascii_digit
      [] kind = "Whitespace" ->
            s # <<>> /\ \A i \in 1..Len(s) : s[i] \in is_ascii_whitespace
      [] kind = "Comment" -> Len(s) >= 2 /\ s[1] = "/" /\ s[2] \in {"/", "*"}
      [] kind = "Str" -> Len(s) >= 2 /\ s[1] = "\"" /\ s[Len(s)] = "\""
      [] OTHER -> Len(s) = 1 /\ s[1] \in Punctuation /\ Single[s[1]] = kind

\* the spans of the items lie one after the other from the start of the source,
\* and none is empty
SpansTile ==
    /\ Items # <<>> => Items[1].span.start = 0
    /\ \A i \in 1..(Len(Items) - 1) : Items[i + 1].span.start = Items[i].span.end
    /\ \A i \in 1..Len(Items) : Items[i].span.end > Items[i].span.start

\* the span of every token returned covers a lexeme of its kind, no more
SpansAreLexemes ==
    \A i \in 1..Len(Items) :
        Items[i].res = "ok" => IsLexeme(Items[i].kind, Covered(Items[i].span))

\* right after a token was returned, before the end of input, current_span is
\* the span of that token
SpanOfLastToken ==
    (lexer.items # <<>> /\ LastItem.res = "ok" /\ ~lexer.lx.eof) =>
        current_span(lexer.lx) = LastItem.span

\* C27: the spans of the items returned by successive calls of next tile the
\* source: the first span starts at 0, each span starts where the one before
\* ended, each call that returns an item consumes at least one character, the
\* span of a returned token is exactly the range of its lexeme, and right after
\* a token is returned, before the end of input, current_span() is that
\* token's span
C27_SpansTile ==
    lexer # NoLexer => (SpansTile /\ SpansAreLexemes /\ SpanOfLastToken)

====
